---- MODULE Spec2Model ----
(***************************************************************************)
(* A model of md_to_orm.py: the metadata-to-schema compiler               *)
(* (create_tables_from_metadata_file), the dependency orderer             *)
(* (order_tables_by_foreign_keys), the provisioner (create_tables,        *)
(* create_schema) and the driver (main).                                  *)
(*                                                                         *)
(* Python strings that the code splits or concatenates are sequences of    *)
(* one-character strings; strings the code only compares are TLA+ strings. *)
(* Python's None is the string NoneValue.  A JSON object is a record, and  *)
(* a missing key is a missing field of the record (KeyError).              *)
(***************************************************************************)
EXTENDS Integers, Sequences, FiniteSets, TLC

VARIABLES
    metadata_files,   \* main: the list of metadata documents (parsed JSON)
    file_idx,         \* main: position of the for-loop over metadata_files
    metadata,         \* db.metadata: the tables registered in sa.MetaData
    tables,           \* main: the list `tables` extended per document
    ordered_tables,   \* the list create_tables iterates over
    i,                \* create_tables: position of the for-loop over tables
    pc,               \* the statement the run is at
    database,         \* the live database: extension, schemas, tables
    database0,        \* the database as it was when the run started
    calls,            \* every database call made so far, in order
    error             \* the exception that ended the run, or NoError

vars == << metadata_files, file_idx, metadata, tables, ordered_tables, i, pc,
           database, database0, calls, error >>

---------------------------------------------------------------------------
(* Bounds *)

MaxNameLen == 3
MaxFields == 2
MaxForeignKeys == 2
MaxResources == 2
MaxFiles == 2
MaxTables == 3

---------------------------------------------------------------------------
(* Values *)

NoneValue == "None"

Chars == {"a", "b", "."}

Public == << "p", "u", "b", "l", "i", "c" >>

Range(s) == { s[k] : k \in DOMAIN s }

\* Sequences over S of length lo..hi
SeqsOf(S, lo, hi) == UNION { [1..n -> S] : n \in lo..hi }

\* postgresql_types.TYPES: metadata type name -> column type
TYPES == [ t \in {"integer", "text", "geometry"} |->
             CASE t = "integer" -> "Integer"
               [] t = "text" -> "Text"
               [] t = "geometry" -> "Geometry" ]

\* isinstance(column.type, Geometry)
IsGeometry(column) == column.type = "Geometry"

---------------------------------------------------------------------------
(* create_tables_from_metadata_file *)

\* str.split("."): the segments between the dots, empty segments kept
RECURSIVE Split(_)
Split(s) ==
    IF \A k \in DOMAIN s : s[k] # "."
    THEN << s >>
    ELSE LET k == CHOOSE k \in DOMAIN s :
                      s[k] = "." /\ \A j \in 1..(k - 1) : s[j] # "."
         IN  << SubSeq(s, 1, k - 1) >> \o Split(SubSeq(s, k + 1, Len(s)))

\* a variant that takes the first two segments of any longer name
SchemaTableFirstTwo(name) ==
    LET schema_table_str == Split(name)
    IN  IF Len(schema_table_str) = 1
        THEN [ status |-> "ok", schema |-> Public,
               table_name |-> schema_table_str[1] ]
        ELSE [ status |-> "ok", schema |-> schema_table_str[1],
               table_name |-> schema_table_str[2] ]

\* lines 109-116: schema and table name of a resource name
SchemaTable(name) ==
    LET schema_table_str == Split(name)
    IN  IF Len(schema_table_str) = 1
        THEN [ status |-> "ok", schema |-> Public,
               table_name |-> schema_table_str[1] ]
        ELSE IF Len(schema_table_str) = 2
        THEN [ status |-> "ok", schema |-> schema_table_str[1],
               table_name |-> schema_table_str[2] ]
        ELSE [ status |-> "MetadataError", schema |-> << >>,
               table_name |-> << >> ]

\* a variant in which the first descriptor of a source field wins
RECURSIVE ForeignKeysDictFirstWins(_)
ForeignKeysDictFirstWins(fks) ==
    IF fks = << >>
    THEN << >>
    ELSE LET d == ForeignKeysDictFirstWins(SubSeq(fks, 1, Len(fks) - 1))
             fk == fks[Len(fks)]
         IN  [ k \in (DOMAIN d) \cup { fk.fields[1] } |->
                 IF k \in DOMAIN d THEN d[k] ELSE fk.reference ]

\* lines 122-125: the dict comprehension {fk.fields[0]: fk.reference};
\* a later descriptor with the same key replaces the earlier one
RECURSIVE ForeignKeysDict(_)
ForeignKeysDict(fks) ==
    IF fks = << >>
    THEN << >>
    ELSE LET d == ForeignKeysDict(SubSeq(fks, 1, Len(fks) - 1))
             fk == fks[Len(fks)]
         IN  [ k \in (DOMAIN d) \cup { fk.fields[1] } |->
                 IF k = fk.fields[1] THEN fk.reference ELSE d[k] ]

\* line 144: f'{foreign_key["resource"]}.{foreign_key["fields"][0]}'
ForeignKeyTarget(foreign_key) ==
    foreign_key.resource \o << "." >> \o foreign_key.fields[1]

\* a variant that gives a field of unknown type the type Text
CompileFieldDefaultType(field, primary_keys, foreign_keys) ==
    IF "description" \notin DOMAIN field
    THEN [ status |-> "KeyError" ]
    ELSE [ status |-> "ok",
           column |->
             [ name |-> field.name,
               type |-> IF field.type \in DOMAIN TYPES
                        THEN TYPES[field.type] ELSE "Text",
               foreign_keys |->
                 IF field.name \in DOMAIN foreign_keys
                 THEN { ForeignKeyTarget(foreign_keys[field.name]) }
                 ELSE { },
               primary_key |-> field.name \in Range(primary_keys),
               comment |-> field.description ] ]

\* lines 130-155: one field -> one column, or the exception raised
CompileField(field, primary_keys, foreign_keys) ==
    IF field.type \notin DOMAIN TYPES
    THEN [ status |-> "MetadataError" ]
    ELSE IF "description" \notin DOMAIN field
    THEN [ status |-> "KeyError" ]
    ELSE [ status |-> "ok",
           column |->
             [ name |-> field.name,
               type |-> TYPES[field.type],
               foreign_keys |->
                 IF field.name \in DOMAIN foreign_keys
                 THEN { ForeignKeyTarget(foreign_keys[field.name]) }
                 ELSE { },
               primary_key |-> field.name \in Range(primary_keys),
               comment |-> field.description ] ]

\* lines 128-156: the loop over the fields; stops at the first exception
RECURSIVE CompileFields(_, _, _)
CompileFields(fields, primary_keys, foreign_keys) ==
    IF fields = << >>
    THEN [ status |-> "ok", columns |-> << >> ]
    ELSE LET c == CompileField(Head(fields), primary_keys, foreign_keys)
         IN  IF c.status # "ok"
             THEN [ status |-> c.status, columns |-> << >> ]
             ELSE LET rest == CompileFields(Tail(fields), primary_keys,
                                            foreign_keys)
                  IN  IF rest.status # "ok"
                      THEN rest
                      ELSE [ status |-> "ok",
                             columns |-> << c.column >> \o rest.columns ]

\* sqlalchemy's key of a table in MetaData.tables: schema + "." + name
TableKey(table) == table.schema \o << "." >> \o table.name

\* a variant in which a table is built without being registered
SaTableUnregistered(md, table_name, columns, schema) ==
    [ status |-> "ok",
      table |-> [ name |-> table_name, schema |-> schema,
                  columns |-> columns ],
      metadata |-> md ]

\* line 158: sa.Table(table_name, db.metadata, *columns, schema=schema).
\* A key already in the MetaData raises InvalidRequestError when columns
\* are given and returns the registered table when none are; a new key
\* is registered.
SaTable(md, table_name, columns, schema) ==
    LET new == [ name |-> table_name, schema |-> schema, columns |-> columns ]
        old == { t \in md : TableKey(t) = TableKey(new) }
    IN  IF old # { }
        THEN IF columns # << >>
             THEN [ status |-> "InvalidRequestError", metadata |-> md ]
             ELSE [ status |-> "ok", table |-> CHOOSE t \in old : TRUE,
                    metadata |-> md ]
        ELSE [ status |-> "ok", table |-> new, metadata |-> md \cup { new } ]

\* lines 107-158: the body of the loop over the resources
CompileResource(md, resource) ==
    LET st == SchemaTable(resource.name)
    IN  IF st.status # "ok"
        THEN [ status |-> st.status, metadata |-> md ]
        ELSE LET cols == CompileFields(resource.fields, resource.primaryKey,
                                       ForeignKeysDict(resource.foreignKeys))
             IN  IF cols.status # "ok"
                 THEN [ status |-> cols.status, metadata |-> md ]
                 ELSE SaTable(md, st.table_name, cols.columns, st.schema)

\* lines 101-159: the tables of a document, or the exception raised, and
\* db.metadata as the call leaves it.  `at` is the resource that raised.
RECURSIVE CompileFrom(_, _, _, _)
CompileFrom(md, resources, k, acc) ==
    IF k > Len(resources)
    THEN [ status |-> "ok", tables |-> acc, metadata |-> md, at |-> 0 ]
    ELSE LET r == CompileResource(md, resources[k])
         IN  IF r.status # "ok"
             THEN [ status |-> r.status, tables |-> << >>,
                    metadata |-> r.metadata, at |-> k ]
             ELSE CompileFrom(r.metadata, resources, k + 1,
                              Append(acc, r.table))

create_tables_from_metadata_file(md, document) ==
    CompileFrom(md, document, 1, << >>)

---------------------------------------------------------------------------
(* order_tables_by_foreign_keys *)

\* len(x.foreign_keys): one ForeignKey object per column that has one
ForeignKeyCount(table) ==
    Cardinality({ k \in DOMAIN table.columns :
                    table.columns[k].foreign_keys # { } })

\* a variant that puts x before the elements of equal key
InsertBeforeEqual(s, x) ==
    LET k == Cardinality({ j \in DOMAIN s :
                             ForeignKeyCount(s[j]) < ForeignKeyCount(x) })
    IN  SubSeq(s, 1, k) \o << x >> \o SubSeq(s, k + 1, Len(s))

\* one step of the stable sort: x goes after every element whose key is
\* not greater than its own
InsertByKey(s, x) ==
    LET k == Cardinality({ j \in DOMAIN s :
                             ForeignKeyCount(s[j]) <= ForeignKeyCount(x) })
    IN  SubSeq(s, 1, k) \o << x >> \o SubSeq(s, k + 1, Len(s))

\* line 98: sorted(tables, key=lambda x: len(x.foreign_keys))
RECURSIVE order_tables_by_foreign_keys(_)
order_tables_by_foreign_keys(ts) ==
    IF ts = << >>
    THEN << >>
    ELSE InsertByKey(order_tables_by_foreign_keys(SubSeq(ts, 1, Len(ts) - 1)),
                     ts[Len(ts)])

---------------------------------------------------------------------------
(* The database behind db.engine *)

NoError == [ exc |-> NoneValue, msg |-> "", at |-> 0 ]

Returned(value) == [ exc |-> NoneValue, msg |-> value ]
ProgrammingError(cause) == [ exc |-> "ProgrammingError", msg |-> cause ]
OperationalError == [ exc |-> "OperationalError", msg |-> "connection" ]

DuplicateObject == "psycopg2.errors.DuplicateObject"
DuplicateSchema == "psycopg2.errors.DuplicateSchema"
DuplicateTable == "psycopg2.errors.DuplicateTable"
InsufficientPrivilege == "psycopg2.errors.InsufficientPrivilege"
InvalidSchemaName == "psycopg2.errors.InvalidSchemaName"

Raised(outcome) == outcome.exc # NoneValue

\* db.engine.dialect.has_schema(db.engine, table.schema)
has_schema(db, schema) == schema \in db.schemas

\* a variant with the table name and the schema exchanged
has_table_exchanged(db, name, schema) == << name, schema >> \in db.tables

\* db.engine.dialect.has_table(db.engine, table.name, table.schema)
has_table(db, name, schema) == << schema, name >> \in db.tables

\* What "CREATE EXTENSION POSTGIS;" can answer: an installed extension is
\* a duplicate; otherwise it is installed unless the role may not.
ExtensionOutcomes(db) ==
    IF db.extension
    THEN { ProgrammingError(DuplicateObject), OperationalError }
    ELSE { Returned("ok"), ProgrammingError(InsufficientPrivilege),
           OperationalError }

\* What CreateSchema can answer: DuplicateSchema when another client
\* created the schema since has_schema answered.
SchemaOutcomes(db, schema) ==
    IF schema \in db.schemas
    THEN { ProgrammingError(DuplicateSchema), OperationalError }
    ELSE { Returned("ok"), ProgrammingError(DuplicateSchema),
           ProgrammingError(InsufficientPrivilege), OperationalError }

\* What table.create() can answer: a table needs its schema;
\* DuplicateTable when another client created it since has_table answered.
TableOutcomes(db, name, schema) ==
    IF schema \notin db.schemas
    THEN { ProgrammingError(InvalidSchemaName), OperationalError }
    ELSE IF << schema, name >> \in db.tables
    THEN { ProgrammingError(DuplicateTable), OperationalError }
    ELSE { Returned("ok"), ProgrammingError(DuplicateTable),
           ProgrammingError(InsufficientPrivilege), OperationalError }

Call(op, at, outcome) == [ op |-> op, at |-> at, outcome |-> outcome ]

---------------------------------------------------------------------------
(* create_tables and create_schema *)

\* line 70: any([isinstance(column.type, Geometry) for column in ...])
HasGeometry(table) == \E k \in DOMAIN table.columns : IsGeometry(table.columns[k])

\* a variant that re-raises DuplicateObject as well
ExtensionRaisesOnDuplicate(outcome) == outcome.exc # NoneValue

\* lines 73-80: the handler of the extension call re-raises unless the
\* message names DuplicateObject; other exceptions are not caught
ExtensionRaises(outcome) ==
    /\ Raised(outcome)
    /\ ~ (outcome.exc = "ProgrammingError" /\ outcome.msg = DuplicateObject)

\* lines 64-65: create_schema passes on every ProgrammingError
SchemaRaises(outcome) ==
    /\ Raised(outcome)
    /\ outcome.exc # "ProgrammingError"

\* a variant that passes on DuplicateTable as create_schema does
TableRaisesUnlessDuplicate(outcome) ==
    /\ outcome.exc # NoneValue
    /\ outcome.msg # DuplicateTable

\* lines 87-89: the handler of table.create() logs and re-raises
TableRaises(outcome) == Raised(outcome)

\* line 69: for table in tables
ForTable ==
    /\ pc = "for"
    /\ pc' = IF i <= Len(ordered_tables) THEN "extension" ELSE "done"
    /\ UNCHANGED << metadata_files, file_idx, metadata, tables,
                    ordered_tables, i, database, database0, calls, error >>

\* lines 70-80
ExtensionStep ==
    /\ pc = "extension"
    /\ IF HasGeometry(ordered_tables[i])
       THEN \E outcome \in ExtensionOutcomes(database) :
              /\ calls' = Append(calls, Call("CREATE EXTENSION", i, outcome))
              /\ database' = IF Raised(outcome) THEN database
                             ELSE [ database EXCEPT !.extension = TRUE ]
              /\ IF ExtensionRaises(outcome)
                 THEN /\ pc' = "failed"
                      /\ error' = [ exc |-> outcome.exc, msg |-> outcome.msg, at |-> i ]
                 ELSE /\ pc' = "schema"
                      /\ error' = error
       ELSE /\ pc' = "schema"
            /\ UNCHANGED << database, calls, error >>
    /\ UNCHANGED << metadata_files, file_idx, metadata, tables,
                    ordered_tables, i, database0 >>

\* lines 81-82 and create_schema, lines 61-65
SchemaStep ==
    /\ pc = "schema"
    /\ LET table == ordered_tables[i]
           exists == has_schema(database, table.schema)
           asked == Append(calls,
                           Call("has_schema", i,
                                Returned(IF exists THEN "True" ELSE "False")))
       IN  IF exists
           THEN /\ calls' = asked
                /\ pc' = "table"
                /\ UNCHANGED << database, error >>
           ELSE \E outcome \in SchemaOutcomes(database, table.schema) :
                  /\ calls' = Append(asked, Call("CreateSchema", i, outcome))
                  /\ database' =
                       IF outcome.exc = NoneValue \/ outcome.msg = DuplicateSchema
                       THEN [ database EXCEPT
                                !.schemas = @ \cup { table.schema } ]
                       ELSE database
                  /\ IF SchemaRaises(outcome)
                     THEN /\ pc' = "failed"
                          /\ error' = [ exc |-> outcome.exc,
                                        msg |-> outcome.msg, at |-> i ]
                     ELSE /\ pc' = "table"
                          /\ error' = error
    /\ UNCHANGED << metadata_files, file_idx, metadata, tables,
                    ordered_tables, i, database0 >>

\* lines 83-89
TableStep ==
    /\ pc = "table"
    /\ LET table == ordered_tables[i]
           exists == has_table(database, table.name, table.schema)
           asked == Append(calls,
                           Call("has_table", i,
                                Returned(IF exists THEN "True" ELSE "False")))
       IN  IF exists
           THEN /\ calls' = asked
                /\ pc' = "for"
                /\ i' = i + 1
                /\ UNCHANGED << database, error >>
           ELSE \E outcome \in TableOutcomes(database, table.name,
                                             table.schema) :
                  /\ calls' = Append(asked, Call("Table.create", i, outcome))
                  /\ database' =
                       IF outcome.exc = NoneValue \/ outcome.msg = DuplicateTable
                       THEN [ database EXCEPT
                                !.tables = @ \cup
                                             { << table.schema, table.name >> } ]
                       ELSE database
                  /\ IF TableRaises(outcome)
                     THEN /\ pc' = "failed"
                          /\ error' = [ exc |-> outcome.exc,
                                        msg |-> outcome.msg, at |-> i ]
                          /\ i' = i
                     ELSE /\ pc' = "for"
                          /\ error' = error
                          /\ i' = i + 1
    /\ UNCHANGED << metadata_files, file_idx, metadata, tables,
                    ordered_tables, database0 >>

create_tables == ForTable \/ ExtensionStep \/ SchemaStep \/ TableStep

---------------------------------------------------------------------------
(* main *)

\* lines 191-200: one turn of the loop over metadata_files; an exception
\* of create_tables_from_metadata_file is logged and re-raised
CompileFile ==
    /\ pc = "compile"
    /\ file_idx <= Len(metadata_files)
    /\ LET md_tables == create_tables_from_metadata_file(
                            metadata, metadata_files[file_idx])
       IN  /\ metadata' = md_tables.metadata
           /\ IF md_tables.status = "ok"
              THEN /\ tables' = tables \o md_tables.tables
                   /\ file_idx' = file_idx + 1
                   /\ UNCHANGED << pc, error >>
              ELSE /\ pc' = "failed"
                   /\ error' = [ exc |-> md_tables.status,
                                 msg |-> "metadata", at |-> md_tables.at ]
                   /\ UNCHANGED << tables, file_idx >>
    /\ UNCHANGED << metadata_files, ordered_tables, i, database, database0,
                    calls >>

\* lines 201-202: order the tables and enter create_tables
OrderTables ==
    /\ pc = "compile"
    /\ file_idx > Len(metadata_files)
    /\ ordered_tables' = order_tables_by_foreign_keys(tables)
    /\ i' = 1
    /\ pc' = "for"
    /\ UNCHANGED << metadata_files, file_idx, metadata, tables, database,
                    database0, calls, error >>

main == CompileFile \/ OrderTables \/ create_tables

---------------------------------------------------------------------------
(* Inputs *)

A == << "a" >>
B == << "b" >>
AB == << "a", "b" >>
BdotA == << "b", ".", "a" >>

Field(name, type, description) ==
    [ name |-> name, type |-> type, description |-> description ]

\* a field descriptor without the optional "description" key
FieldWithoutDescription(name, type) == [ name |-> name, type |-> type ]

ForeignKey(source, resource, field) ==
    [ fields |-> << source >>,
      reference |-> [ resource |-> resource, fields |-> << field >> ] ]

Resource(name, fields, primaryKey, foreignKeys) ==
    [ name |-> name, fields |-> fields, primaryKey |-> primaryKey,
      foreignKeys |-> foreignKeys ]

\* public.a: one integer column
ResourcePlain ==
    Resource(A, << Field(A, "integer", "d") >>, << A >>, << >>)

\* b.a: a geometry column in schema b
ResourceGeometry ==
    Resource(BdotA, << Field(A, "geometry", NoneValue) >>, << A >>, << >>)

\* public.b: one foreign key
ResourceForeignKey ==
    Resource(B, << Field(A, "integer", "d"), Field(B, "integer", "d") >>,
             << A >>, << ForeignKey(B, BdotA, A) >>)

\* a.b: two foreign keys
ResourceTwoForeignKeys ==
    Resource(<< "a", ".", "b" >>,
             << Field(A, "integer", "d"), Field(B, "integer", "d") >>,
             << >>, << ForeignKey(A, A, A), ForeignKey(B, BdotA, A) >>)

\* a.a: one foreign key
ResourceOtherForeignKey ==
    Resource(<< "a", ".", "a" >>, << Field(A, "text", "d") >>,
             << >>, << ForeignKey(A, A, A) >>)

\* b.a again, without fields
ResourceNoFields == Resource(BdotA, << >>, << >>, << >>)

\* a field type that is not in TYPES
ResourceUnknownType ==
    Resource(A, << Field(A, "varchar2", "d") >>, << >>, << >>)

TableOf(resource) == CompileResource({ }, resource).table

\* every database over the given tables: a table lives in a schema
Databases(keys) ==
    { [ extension |-> e, schemas |-> S, tables |-> T ] :
        e \in BOOLEAN,
        S \in SUBSET { k[1] : k \in keys },
        T \in SUBSET keys } 

ConsistentDatabases(keys) ==
    { db \in Databases(keys) : \A k \in db.tables : k[1] \in db.schemas }

KeysOf(ts) == { << t.schema, t.name >> : t \in ts }

\* the documents of a run: a sequence of resources cut into files
CutInto(resources, cuts) ==
    [ k \in 1..(Len(cuts) + 1) |->
        SubSeq(resources,
               IF k = 1 THEN 1 ELSE cuts[k - 1] + 1,
               IF k = Len(cuts) + 1 THEN Len(resources) ELSE cuts[k]) ]

Cuts(resources) ==
    { c \in SeqsOf(0..Len(resources), 0, MaxFiles - 1) :
        \A k \in DOMAIN c : k > 1 => c[k - 1] <= c[k] }

MetadataFileLists(catalogue) ==
    { << >> } \cup
    UNION { { CutInto(rs, cuts) : cuts \in Cuts(rs) } :
              rs \in SeqsOf(catalogue, 0, MaxResources) }

MainCatalogue ==
    { ResourceGeometry, ResourceForeignKey, ResourceNoFields,
      ResourceUnknownType }

ProvisionCatalogue ==
    { TableOf(ResourcePlain), TableOf(ResourceGeometry),
      TableOf(ResourceForeignKey) }

OrderCatalogue ==
    { TableOf(ResourcePlain), TableOf(ResourceGeometry),
      TableOf(ResourceForeignKey), TableOf(ResourceOtherForeignKey),
      TableOf(ResourceTwoForeignKeys) }

\* every resource name over Chars, with one plain field
Names == SeqsOf(Chars, 1, MaxNameLen)

NameInputs ==
    { Resource(name, << Field(A, "integer", "d") >>, << A >>, << >>) :
        name \in Names }

\* every list of fields and of foreign-key descriptors, under one name
FieldInputs ==
    { Field(name, type, "d") :
        name \in { A, B, AB }, type \in { "integer", "varchar2" } }
    \cup
    { FieldWithoutDescription(name, type) :
        name \in { A, B, AB }, type \in { "integer", "varchar2" } }

FieldLists ==
    { fs \in SeqsOf(FieldInputs, 0, MaxFields) :
        \A j, k \in DOMAIN fs : j # k => fs[j].name # fs[k].name }

ForeignKeyInputs ==
    { ForeignKey(source, resource, A) :
        source \in { A, B }, resource \in { A, BdotA } }

ColumnInputs ==
    { Resource(A, fields, primaryKey, foreignKeys) :
        fields \in FieldLists,
        primaryKey \in { << >>, << A >> },
        foreignKeys \in SeqsOf(ForeignKeyInputs, 0, MaxForeignKeys) }

---------------------------------------------------------------------------
(* Specifications *)

\* a run of main over any documents and any database
Init ==
    /\ metadata_files \in MetadataFileLists(MainCatalogue)
    /\ file_idx = 1
    /\ metadata = { }
    /\ tables = << >>
    /\ ordered_tables = << >>
    /\ i = 1
    /\ pc = "compile"
    /\ database \in ConsistentDatabases(
                        { << B, A >>, << Public, B >>, << Public, A >> })
    /\ database0 = database
    /\ calls = << >>
    /\ error = NoError

Next == main

Spec == Init /\ [][Next]_vars

\* create_tables called on any list of tables against any database
InitProvision ==
    /\ metadata_files = << >>
    /\ file_idx = 1
    /\ ordered_tables \in SeqsOf(ProvisionCatalogue, 0, MaxTables)
    /\ metadata = Range(ordered_tables)
    /\ tables = ordered_tables
    /\ i = 1
    /\ pc = "for"
    /\ database \in ConsistentDatabases(KeysOf(ProvisionCatalogue))
    /\ database0 = database
    /\ calls = << >>
    /\ error = NoError

NextProvision == create_tables

SpecProvision == InitProvision /\ [][NextProvision]_vars

\* order_tables_by_foreign_keys applied to any list of tables
InitOrder ==
    /\ metadata_files = << >>
    /\ file_idx = 1
    /\ tables \in SeqsOf(OrderCatalogue, 0, MaxTables)
    /\ metadata = Range(tables)
    /\ ordered_tables = << >>
    /\ i = 1
    /\ pc = "compile"
    /\ database = [ extension |-> FALSE, schemas |-> { }, tables |-> { } ]
    /\ database0 = database
    /\ calls = << >>
    /\ error = NoError

NextOrder == OrderTables

SpecOrder == InitOrder /\ [][NextOrder]_vars

\* create_tables_from_metadata_file applied to a document of one resource
InitCompile ==
    /\ metadata_files \in { << << r >> >> : r \in NameInputs \cup ColumnInputs }
    /\ file_idx = 1
    /\ metadata = { }
    /\ tables = << >>
    /\ ordered_tables = << >>
    /\ i = 1
    /\ pc = "compile"
    /\ database = [ extension |-> FALSE, schemas |-> { }, tables |-> { } ]
    /\ database0 = database
    /\ calls = << >>
    /\ error = NoError

NextCompile == CompileFile

SpecCompile == InitCompile /\ [][NextCompile]_vars

---------------------------------------------------------------------------
(* Vocabulary of the properties *)

CreationOps == { "CREATE EXTENSION", "CreateSchema", "Table.create" }

CallsOf(op) == { k \in DOMAIN calls : calls[k].op = op }

Key(table) == << table.schema, table.name >>

Dots(name) == Cardinality({ k \in DOMAIN name : name[k] = "." })

Finished == pc \in { "done", "failed" }

\* every listed table, and its schema, was in the database at the start
AllExist ==
    \A t \in Range(ordered_tables) :
        /\ Key(t) \in database0.tables
        /\ t.schema \in database0.schemas

\* the listed tables that were not in the database at the start
MissingKeys ==
    { Key(t) : t \in Range(ordered_tables) } \ database0.tables

\* the loop of create_tables is past the extension check of table j
PastExtension(j) ==
    \/ j < i
    \/ j = i /\ pc \in { "schema", "table" }
    \/ j = i /\ pc = "failed"

\* the call failed, and not because its object already exists
FailedOtherwise(call) ==
    /\ Raised(call.outcome)
    /\ call.outcome.msg \notin { DuplicateObject, DuplicateSchema,
                                 DuplicateTable }

\* the resource of the one-resource document of SpecCompile
TheResource == metadata_files[1][1]

Compiled == pc = "compile" /\ file_idx = 2

UnknownType(field) == field.type \notin DOMAIN TYPES

---------------------------------------------------------------------------
(* C1 *)

---------------------------------------------------------------------------
(* C2 *)

---------------------------------------------------------------------------
(* C9 *)

\* C9: a failure of extension creation or of schema creation is swallowed
\* only when the extension or schema already exists; any other failure
\* ends the run at that call, so no table creation follows it.
C9_OnlyAlreadyExistsSwallowed ==
    \A k \in DOMAIN calls :
        ( /\ calls[k].op \in { "CREATE EXTENSION", "CreateSchema" }
          /\ FailedOtherwise(calls[k]) )
        => /\ pc = "failed"
           /\ k = Len(calls)
           /\ error.at = calls[k].at

---------------------------------------------------------------------------
(* C10 *)

\* C10: create_tables takes the list in order and stops at the first table
\* whose creation fails, DuplicateTable included: the exception leaves
\* create_tables, the tables created before stay in the database, and no
\* call is made for a later table.
C10_StopsAtFirstFailedCreation ==
    /\ \A j, k \in DOMAIN calls : j < k => calls[j].at <= calls[k].at
    /\ \A k \in DOMAIN calls : calls[k].at <= i
    /\ \A k \in CallsOf("Table.create") :
         IF Raised(calls[k].outcome)
         THEN /\ pc = "failed"
              /\ k = Len(calls)
              /\ error = [ exc |-> calls[k].outcome.exc,
                           msg |-> calls[k].outcome.msg,
                           at |-> calls[k].at ]
         ELSE Key(ordered_tables[calls[k].at]) \in database.tables
    /\ pc = "failed" =>
         /\ i = error.at
         /\ \A k \in DOMAIN calls : calls[k].at <= error.at

\* a run ended by DuplicateTable after it had created an earlier table and
\* before it reached a later one
C10_Witness ==
    /\ pc = "failed"
    /\ error.msg = DuplicateTable
    /\ error.at < Len(ordered_tables)
    /\ \E k \in CallsOf("Table.create") :
         /\ calls[k].at < error.at
         /\ calls[k].outcome = Returned("ok")
         /\ Key(ordered_tables[calls[k].at]) \in database.tables
         /\ Key(ordered_tables[calls[k].at]) \notin database0.tables

---------------------------------------------------------------------------
(* C3 *)

HasUnknownType ==
    \E d \in DOMAIN metadata_files :
        \E r \in DOMAIN metadata_files[d] :
            \E f \in DOMAIN metadata_files[d][r].fields :
                UnknownType(metadata_files[d][r].fields[f])

\* C3: when some field of some resource of some document has a type that
\* is not in TYPES, the run never leaves the compilation loop other than
\* by an exception, and no database call is ever made.
C3_UnknownTypeFailsBeforeDatabase ==
    HasUnknownType =>
        /\ calls = << >>
        /\ database = database0
        /\ pc \in { "compile", "failed" }
        /\ pc = "compile" => file_idx <= Len(metadata_files)
        /\ pc = "failed" => error.exc # NoneValue

\* the second document holds the unknown type: the first was compiled,
\* the run failed with MetadataError, nothing was called
C3_Witness ==
    /\ HasUnknownType
    /\ pc = "failed"
    /\ error.exc = "MetadataError"
    /\ file_idx = 2
    /\ tables # << >>
    /\ calls = << >>

---------------------------------------------------------------------------
(* C4 *)

WithCount(ts, c) ==
    LET HasCount(t) == ForeignKeyCount(t) = c
    IN  SelectSeq(ts, HasCount)

\* C4: order_tables_by_foreign_keys returns a permutation of its input in
\* ascending order of foreign-key count, tables of equal count in their
\* input order; [0, 2, 1 foreign keys] comes out as [0, 1, 2].
C4_StableSortByForeignKeyCount ==
    pc = "for" =>
        /\ Len(ordered_tables) = Len(tables)
        /\ \A j, k \in DOMAIN ordered_tables :
             j < k => ForeignKeyCount(ordered_tables[j])
                        <= ForeignKeyCount(ordered_tables[k])
        /\ \A c \in { ForeignKeyCount(t) :
                        t \in Range(tables) \cup Range(ordered_tables) } :
             WithCount(ordered_tables, c) = WithCount(tables, c)
        /\ tables = << TableOf(ResourcePlain), TableOf(ResourceTwoForeignKeys),
                       TableOf(ResourceForeignKey) >>
           => ordered_tables =
                << TableOf(ResourcePlain), TableOf(ResourceForeignKey),
                   TableOf(ResourceTwoForeignKeys) >>

\* two tables of equal count behind a table of greater count
C4_Witness ==
    /\ pc = "for"
    /\ tables = << TableOf(ResourceTwoForeignKeys),
                   TableOf(ResourceForeignKey),
                   TableOf(ResourceOtherForeignKey) >>
    /\ ordered_tables = << TableOf(ResourceForeignKey),
                           TableOf(ResourceOtherForeignKey),
                           TableOf(ResourceTwoForeignKeys) >>

---------------------------------------------------------------------------
(* C5 *)

NoDot(s) == \A k \in DOMAIN s : s[k] # "."

FieldsCompile(resource) ==
    \A k \in DOMAIN resource.fields :
        /\ ~ UnknownType(resource.fields[k])
        /\ "description" \in DOMAIN resource.fields[k]

\* C5: a name without "." gives schema "public" and the name as table; a
\* name with one "." gives the part before it as schema and the part
\* after it as table; a name with two or more fails with MetadataError.
C5_SchemaAndTableFromName ==
    LET name == TheResource.name
    IN  /\ Compiled =>
              /\ Dots(name) <= 1
              /\ Len(tables) = 1
              /\ Dots(name) = 0 =>
                   /\ tables[1].schema = Public
                   /\ tables[1].name = name
              /\ Dots(name) = 1 =>
                   /\ tables[1].schema \o << "." >> \o tables[1].name = name
                   /\ NoDot(tables[1].schema)
                   /\ NoDot(tables[1].name)
        /\ (pc = "failed" /\ Dots(name) >= 2) =>
              /\ error.exc = "MetadataError"
              /\ error.at = 1
        /\ (pc = "failed" /\ Dots(name) <= 1) => ~ FieldsCompile(TheResource)

\* the name "b.a" compiled to table a of schema b
C5_Witness ==
    /\ Compiled
    /\ TheResource.name = BdotA
    /\ tables[1].schema = B
    /\ tables[1].name = A

---------------------------------------------------------------------------
(* C6 *)

SourcesOf(resource, field) ==
    { j \in DOMAIN resource.foreignKeys :
        resource.foreignKeys[j].fields[1] = field.name }

Reference(descriptor) ==
    descriptor.reference.resource \o << "." >>
        \o descriptor.reference.fields[1]

Last(S) == CHOOSE j \in S : \A k \in S : k <= j

\* C6 as stated: a column whose field is the source of a foreign-key
\* descriptor carries the reference <resource>.<fields[0]> of that
\* descriptor, for every such descriptor; other columns carry none.
C6_ReferenceOfEveryDescriptor ==
    Compiled =>
        \A k \in DOMAIN TheResource.fields :
            LET sources == SourcesOf(TheResource, TheResource.fields[k])
                column == tables[1].columns[k]
            IN  /\ sources = { } => column.foreign_keys = { }
                /\ \A j \in sources :
                     column.foreign_keys =
                        { Reference(TheResource.foreignKeys[j]) }

\* C6 amended: a column whose field is the source of foreign-key
\* descriptors carries the non-empty reference <resource>.<fields[0]> of
\* the last of them; other columns carry none.
C6_ReferenceOfLastDescriptor ==
    Compiled =>
        /\ Len(tables) = 1
        /\ Len(tables[1].columns) = Len(TheResource.fields)
        /\ \A k \in DOMAIN TheResource.fields :
            LET sources == SourcesOf(TheResource, TheResource.fields[k])
                column == tables[1].columns[k]
            IN  /\ column.name = TheResource.fields[k].name
                /\ sources = { } => column.foreign_keys = { }
                /\ sources # { } =>
                     /\ column.foreign_keys =
                          { Reference(TheResource.foreignKeys[Last(sources)]) }
                     /\ << >> \notin column.foreign_keys

\* a field that is the source of two descriptors with different targets,
\* beside a field that is the source of none
C6_Witness ==
    /\ Compiled
    /\ Len(TheResource.fields) = 2
    /\ \E k \in DOMAIN TheResource.fields :
         LET sources == SourcesOf(TheResource, TheResource.fields[k])
         IN  /\ Cardinality(sources) = 2
             /\ Cardinality({ Reference(TheResource.foreignKeys[j]) :
                                j \in sources }) = 2
             /\ tables[1].columns[k].foreign_keys # { }
    /\ \E k \in DOMAIN TheResource.fields :
         tables[1].columns[k].foreign_keys = { }

---------------------------------------------------------------------------
(* C7 *)

\* C7: the description of a field is optional: with a description the
\* column's comment is the description, without one the compilation
\* still succeeds and the column has no comment.
C7_DescriptionOptional ==
    /\ pc = "failed" =>
         \/ Dots(TheResource.name) >= 2
         \/ \E k \in DOMAIN TheResource.fields :
               UnknownType(TheResource.fields[k])
    /\ Compiled =>
         \A k \in DOMAIN TheResource.fields :
            tables[1].columns[k].comment =
               IF "description" \in DOMAIN TheResource.fields[k]
               THEN TheResource.fields[k].description
               ELSE NoneValue

---------------------------------------------------------------------------
(* C8 *)

\* the run is in, or was ended by, the compilation loop of main
InCompile == pc = "compile" \/ (pc = "failed" /\ error.msg = "metadata")

CompileFailed == pc = "failed" /\ error.msg = "metadata"

\* <schema>.<table> as a resource name reads
QualifiedName(name) ==
    IF NoDot(name) THEN Public \o << "." >> \o name ELSE name

\* the resources compiled so far without an exception
CompiledResources ==
    UNION { Range(metadata_files[d]) : d \in 1..(file_idx - 1) }
    \cup
    ( IF CompileFailed
      THEN Range(SubSeq(metadata_files[file_idx], 1, error.at - 1))
      ELSE { } )

\* the document compiled alone, db.metadata being empty
Alone(d) == create_tables_from_metadata_file({ }, metadata_files[d])

RECURSIVE TablesAlone(_)
TablesAlone(n) ==
    IF n = 0 THEN << >> ELSE TablesAlone(n - 1) \o Alone(n).tables

\* C8 as stated: compiling a document is a pure transformation: db.metadata
\* is left as it was and no table is registered, the result of compiling
\* a document is what compiling it alone gives, whatever was compiled
\* before, and a failed compilation leaves no trace.
C8_CompileIsPure ==
    /\ metadata = { }
    /\ pc = "compile" =>
         /\ \A d \in 1..(file_idx - 1) : Alone(d).status = "ok"
         /\ tables = TablesAlone(file_idx - 1)
    /\ CompileFailed => Alone(file_idx).status = error.exc

\* C8 amended: compiling a document makes no database call, but it is not
\* pure: every compiled table is registered in db.metadata under
\* <schema>.<table>, once, and stays registered when a later resource
\* fails; a resource whose name is registered already raises
\* InvalidRequestError when it has fields, although it compiles alone,
\* and yields the registered table when it has none.
C8_CompileRegistersTables ==
    /\ InCompile => calls = << >> /\ database = database0
    /\ Range(tables) \subseteq metadata
    /\ ~ CompileFailed => metadata = Range(tables)
    /\ { TableKey(t) : t \in metadata }
         = { QualifiedName(r.name) : r \in CompiledResources }
    /\ \A s, t \in metadata : TableKey(s) = TableKey(t) => s = t
    /\ (CompileFailed /\ error.exc = "InvalidRequestError") =>
         LET resource == metadata_files[file_idx][error.at]
         IN  /\ QualifiedName(resource.name)
                  \in { QualifiedName(r.name) : r \in CompiledResources }
             /\ resource.fields # << >>
             /\ CompileResource({ }, resource).status = "ok"

\* the second document fails on a name the first document registered,
\* and the first document's table is still registered
C8_Witness ==
    /\ CompileFailed
    /\ error.exc = "InvalidRequestError"
    /\ file_idx = 2
    /\ error.at = 1
    /\ Alone(2).status = "ok"
    /\ metadata = Range(tables)
    /\ metadata # { }

====
